---- MODULE Spec2Model ----
(***************************************************************************)
(* pysmartnode: the component network-init queue (utils/component), the    *)
(* EC sensor constructor (dev/ecMeter.py) and the safety_off switch mode   *)
(* (components/switches/switch_extension/safety_off.py).                    *)
(*                                                                         *)
(* Two state machines share this module:                                   *)
(*   Spec      Component.__init__, EC.__init__, __initNetworkProcess and   *)
(*             _init_network, one step per stretch of code between awaits; *)
(*   ModeSpec  one safety_off instance: on/off/activate/deactivate calls,  *)
(*             _changeOnTime, the _wait_off tasks and the clock.           *)
(* uasyncio is single-threaded and cooperative: code between two awaits is *)
(* one atomic action, and tasks interleave only at awaits.                  *)
(***************************************************************************)
EXTENDS Integers, Sequences, FiniteSets

\* ---------------------------------------------------------------- bounds
MaxComponents == 2
MaxTopics == 1
MaxCalls == 3
MaxCallers == 2
MaxSeconds == 1

\* ------------------------------------------------------ program constants
\* Python's None, for references to components and tasks (ids start at 1)
None == 0
\* safety_off.__init__: self._on_time = 30
DefaultOnTime == 30
\* _wait_off: self._on_time * 1000, seconds to milliseconds
MsPerSecond == 1000
\* _wait_off: await asyncio.sleep(0.2), in milliseconds
SleepMs == 200
\* ecMeter.py: _unit_index = -1
InitialUnitIndex == -1

Comp == 1..MaxComponents
Tasks == 1..MaxCalls
Callers == 1..MaxCallers
MaxElapsed == MaxSeconds * MsPerSecond

VARIABLES
    \* ---- Component class and instances
    cls_init_queue_start,   \* Component._init_queue_start, the class attribute
    inst_set,               \* inst_set[c]: c has an instance attribute _init_queue_start
    inst_val,               \* inst_val[c]: its value when set
    init_next,              \* c._init_next
    registry,               \* config.addComponent chain, in registration order
    objs,                   \* number of component objects whose __init__ ran
    kind,                   \* "Component" or "EC"
    failed,                 \* failed[c]: c's constructor raised
    topics,                 \* len(c._topics)
    discover,               \* c.__discover: "True", "False" or "int"
    unit_index,             \* ecMeter._unit_index
    mqtt_discovery_enabled, \* config.MQTT_DISCOVERY_ENABLED
    discovery_lock,         \* Component._discovery_lock: None or the holder
    wpc,                    \* position of the __initNetworkProcess task created by c
    wcur,                   \* its local variable c
    wrem,                   \* topics it still has to subscribe in _init_network
    init_count,             \* how many times _init_network(c) was invoked
    init_done,              \* how many times _init_network(c) returned
    ctx,                    \* what the workers were doing when c was constructed
    \* ---- one safety_off instance
    on_time,                \* self._on_time
    coro,                   \* self._coro: None or a _wait_off task
    dev_state,              \* component.state()
    ntasks,                 \* _wait_off coroutines created so far
    tpc,                    \* position of each _wait_off task
    telapsed,               \* time.ticks_diff(time.ticks_ms(), st) of the task
    twake,                  \* its current asyncio.sleep(0.2) is over
    tpend,                  \* a CancelledError is pending for it
    tdur0,                  \* self._on_time when it began to wait
    tend,                   \* how it left the wait: elapsed, elapsed_changed (the
                            \* duration then differed from tdur0) or cancelled
    toff,                   \* component_off invocations made by it
    cpc,                    \* position of each caller of the mode
    cret,                   \* what the caller's last call returned or raised
    ncalls,                 \* on/off/activate/deactivate calls made so far
    on_count                \* component_on invocations

compVars == <<cls_init_queue_start, inst_set, inst_val, init_next, registry, objs,
              kind, failed, topics, discover, unit_index, mqtt_discovery_enabled,
              discovery_lock, wpc, wcur, wrem, init_count, init_done, ctx>>
modeVars == <<on_time, coro, dev_state, ntasks, tpc, telapsed, twake, tpend, tdur0,
              tend, toff, cpc, cret, ncalls, on_count>>
vars == <<compVars, modeVars>>

\* ===================================================== Component machine

\* the lookup as if the name always meant the class attribute
GetInitQueueStart_ClassOnly(c) ==
    cls_init_queue_start

\* self._init_queue_start read through instance c: the instance attribute when
\* there is one, else the class attribute
GetInitQueueStart(c) ==
    IF inst_set[c] THEN inst_val[c] ELSE cls_init_queue_start

\* Component.__init__: while c._init_next is not None: c = c._init_next
RECURSIVE ChainTail(_)
ChainTail(c) ==
    IF init_next[c] = None THEN c ELSE ChainTail(init_next[c])

\* workers currently between the call of _init_network and its return
Inside == {w \in Comp : wpc[w] \in {"log", "sub", "lockwait", "disc"}}
\* __initNetworkProcess tasks that exist: created and not finished
LiveWorkers == {w \in Comp : wpc[w] \in {"created", "log", "sub", "lockwait", "disc"}}

WorkerContext ==
    IF Inside # {} THEN "during"
    ELSE IF \E w \in Comp : wpc[w] = "done" THEN "after"
    ELSE "before"

\* Component.__init__(self=c, ..., discover=d)
ComponentInit(c, d) ==
    /\ registry' = Append(registry, c)
    /\ IF GetInitQueueStart(c) = None
       THEN /\ inst_set' = [inst_set EXCEPT ![c] = TRUE]
            /\ inst_val' = [inst_val EXCEPT ![c] = c]
            /\ wpc' = [wpc EXCEPT ![c] = "created"]
            /\ init_next' = [init_next EXCEPT ![c] = None]
       ELSE /\ init_next' = [init_next EXCEPT ![c] = None,
                                              ![ChainTail(GetInitQueueStart(c))] = c]
            /\ UNCHANGED <<inst_set, inst_val, wpc>>
    /\ discover' = [discover EXCEPT ![c] = d]
    /\ ctx' = [ctx EXCEPT ![c] = WorkerContext]
    /\ objs' = c

\* a plain Component subclass is constructed, then _subscribe()s nt topics
ConstructComponent(d, nt) ==
    /\ objs < MaxComponents
    /\ ComponentInit(objs + 1, d)
    /\ kind' = [kind EXCEPT ![objs + 1] = "Component"]
    /\ topics' = [topics EXCEPT ![objs + 1] = nt]
    /\ UNCHANGED <<cls_init_queue_start, failed, unit_index, mqtt_discovery_enabled,
                   discovery_lock, wcur, wrem, init_count, init_done>>
    /\ UNCHANGED modeVars

\* EC.__init__ with topic_ec and topic_ppm given; hasTemp: temp_sensor has an
\* attribute temperature
ConstructEC(hasTemp) ==
    /\ objs < MaxComponents
    /\ unit_index' = unit_index + 1
    /\ ComponentInit(objs + 1, "int")
    /\ kind' = [kind EXCEPT ![objs + 1] = "EC"]
    /\ failed' = [failed EXCEPT ![objs + 1] = ~hasTemp]
    /\ UNCHANGED <<cls_init_queue_start, topics, mqtt_discovery_enabled,
                   discovery_lock, wcur, wrem, init_count, init_done>>
    /\ UNCHANGED modeVars

\* __initNetworkProcess: await c._init_network() is entered for c
EnterInitNetwork(w, c) ==
    /\ wpc' = [wpc EXCEPT ![w] = "log"]
    /\ wcur' = [wcur EXCEPT ![w] = c]
    /\ init_count' = [init_count EXCEPT ![c] = @ + 1]
    /\ UNCHANGED <<inst_set, inst_val>>

\* __initNetworkProcess after _init_network returned: c = c._init_next, the
\* loop test, and self._init_queue_start = None at the end
LeaveInitNetwork(w) ==
    /\ init_done' = [init_done EXCEPT ![wcur[w]] = @ + 1]
    /\ IF init_next[wcur[w]] # None
       THEN EnterInitNetwork(w, init_next[wcur[w]])
       ELSE /\ wpc' = [wpc EXCEPT ![w] = "done"]
            /\ wcur' = [wcur EXCEPT ![w] = None]
            /\ inst_set' = [inst_set EXCEPT ![w] = TRUE]
            /\ inst_val' = [inst_val EXCEPT ![w] = None]
            /\ UNCHANGED init_count

\* the lock is free
LockFree == discovery_lock = None

\* the discovery test with _discovery() entered without taking the lock
DiscoveryCheck_NoLock(w) ==
    IF mqtt_discovery_enabled /\ discover[wcur[w]] = "True"
    THEN /\ discovery_lock' = wcur[w]
         /\ wpc' = [wpc EXCEPT ![w] = "disc"]
         /\ UNCHANGED <<wcur, init_count, init_done, inst_set, inst_val>>
    ELSE /\ LeaveInitNetwork(w)
         /\ UNCHANGED discovery_lock

\* _init_network after the subscriptions: the discovery test and async with
DiscoveryCheck(w) ==
    IF mqtt_discovery_enabled /\ discover[wcur[w]] = "True"
    THEN /\ IF LockFree
            THEN /\ discovery_lock' = wcur[w]
                 /\ wpc' = [wpc EXCEPT ![w] = "disc"]
            ELSE /\ wpc' = [wpc EXCEPT ![w] = "lockwait"]
                 /\ UNCHANGED discovery_lock
         /\ UNCHANGED <<wcur, init_count, init_done, inst_set, inst_val>>
    ELSE /\ LeaveInitNetwork(w)
         /\ UNCHANGED discovery_lock

compRest == <<cls_init_queue_start, init_next, registry, objs, kind, failed, topics,
              discover, unit_index, mqtt_discovery_enabled, ctx>>

\* the task created by w's constructor runs for the first time
WorkerStart(w) ==
    /\ wpc[w] = "created"
    /\ IF GetInitQueueStart(w) # None
       THEN EnterInitNetwork(w, GetInitQueueStart(w))
       ELSE /\ wpc' = [wpc EXCEPT ![w] = "done"]
            /\ inst_set' = [inst_set EXCEPT ![w] = TRUE]
            /\ inst_val' = [inst_val EXCEPT ![w] = None]
            /\ UNCHANGED <<wcur, init_count>>
    /\ UNCHANGED <<compRest, discovery_lock, wrem, init_done>>
    /\ UNCHANGED modeVars

\* await config._log.asyncLog(...) returns; the for loop over the topics begins
LogDone(w) ==
    /\ wpc[w] = "log"
    /\ IF topics[wcur[w]] > 0
       THEN /\ wpc' = [wpc EXCEPT ![w] = "sub"]
            /\ wrem' = [wrem EXCEPT ![w] = topics[wcur[w]]]
            /\ UNCHANGED <<wcur, init_count, init_done, inst_set, inst_val,
                           discovery_lock>>
       ELSE /\ DiscoveryCheck(w)
            /\ UNCHANGED wrem
    /\ UNCHANGED compRest
    /\ UNCHANGED modeVars

\* await _mqtt.subscribe(t, qos=1) returns
SubscribeDone(w) ==
    /\ wpc[w] = "sub"
    /\ wrem' = [wrem EXCEPT ![w] = @ - 1]
    /\ IF wrem[w] > 1
       THEN UNCHANGED <<wpc, wcur, init_count, init_done, inst_set, inst_val,
                        discovery_lock>>
       ELSE DiscoveryCheck(w)
    /\ UNCHANGED compRest
    /\ UNCHANGED modeVars

\* async with self._discovery_lock: the blocked acquire goes through
LockAcquire(w) ==
    /\ wpc[w] = "lockwait"
    /\ LockFree
    /\ discovery_lock' = wcur[w]
    /\ wpc' = [wpc EXCEPT ![w] = "disc"]
    /\ UNCHANGED <<wcur, wrem, init_count, init_done, inst_set, inst_val>>
    /\ UNCHANGED compRest
    /\ UNCHANGED modeVars

\* the end of _discovery with the lock released only on a normal return
DiscoveryDone_KeepLockOnRaise(w, outcome) ==
    /\ wpc[w] = "disc"
    /\ discovery_lock' = IF outcome = "raise" THEN discovery_lock ELSE None
    /\ IF outcome = "raise"
       THEN /\ wpc' = [wpc EXCEPT ![w] = "raised"]
            /\ UNCHANGED <<wcur, init_count, init_done, inst_set, inst_val>>
       ELSE LeaveInitNetwork(w)
    /\ UNCHANGED wrem
    /\ UNCHANGED compRest
    /\ UNCHANGED modeVars

\* await self._discovery() ends, by returning or by raising; async with
\* releases the lock either way; an exception ends the worker task
DiscoveryDone(w, outcome) ==
    /\ wpc[w] = "disc"
    /\ discovery_lock' = None
    /\ IF outcome = "raise"
       THEN /\ wpc' = [wpc EXCEPT ![w] = "raised"]
            /\ UNCHANGED <<wcur, init_count, init_done, inst_set, inst_val>>
       ELSE LeaveInitNetwork(w)
    /\ UNCHANGED wrem
    /\ UNCHANGED compRest
    /\ UNCHANGED modeVars

CompInit ==
    /\ cls_init_queue_start = None
    /\ inst_set = [c \in Comp |-> FALSE]
    /\ inst_val = [c \in Comp |-> None]
    /\ init_next = [c \in Comp |-> None]
    /\ registry = <<>>
    /\ objs = 0
    /\ kind = [c \in Comp |-> "none"]
    /\ failed = [c \in Comp |-> FALSE]
    /\ topics = [c \in Comp |-> 0]
    /\ discover = [c \in Comp |-> "none"]
    /\ unit_index = InitialUnitIndex
    /\ mqtt_discovery_enabled \in BOOLEAN
    /\ discovery_lock = None
    /\ wpc = [c \in Comp |-> "none"]
    /\ wcur = [c \in Comp |-> None]
    /\ wrem = [c \in Comp |-> 0]
    /\ init_count = [c \in Comp |-> 0]
    /\ init_done = [c \in Comp |-> 0]
    /\ ctx = [c \in Comp |-> "none"]

ModeInit ==
    /\ on_time = DefaultOnTime
    /\ coro = None
    /\ dev_state = FALSE
    /\ ntasks = 0
    /\ tpc = [t \in Tasks |-> "none"]
    /\ telapsed = [t \in Tasks |-> 0]
    /\ twake = [t \in Tasks |-> FALSE]
    /\ tpend = [t \in Tasks |-> FALSE]
    /\ tdur0 = [t \in Tasks |-> 0]
    /\ tend = [t \in Tasks |-> "none"]
    /\ toff = [t \in Tasks |-> 0]
    /\ cpc = [k \in Callers |-> "idle"]
    /\ cret = [k \in Callers |-> "none"]
    /\ ncalls = 0
    /\ on_count = 0

Init == CompInit /\ ModeInit

Next ==
    \/ \E d \in {"True", "False"}, nt \in 0..MaxTopics : ConstructComponent(d, nt)
    \/ \E hasTemp \in BOOLEAN : ConstructEC(hasTemp)
    \/ \E w \in Comp : WorkerStart(w)
    \/ \E w \in Comp : LogDone(w)
    \/ \E w \in Comp : SubscribeDone(w)
    \/ \E w \in Comp : LockAcquire(w)
    \/ \E w \in Comp, outcome \in {"return", "raise"} : DiscoveryDone(w, outcome)

Spec == Init /\ [][Next]_vars

\* ===================================================== safety_off machine

\* the payloads of the on_time topic that are tried
Msgs == {<<"0">>, <<"1">>, <<"3", "0">>, <<"x">>}

Digits == {"0", "1", "2", "3", "4", "5", "6", "7", "8", "9"}

DigitVal(ch) ==
    CASE ch = "0" -> 0 [] ch = "1" -> 1 [] ch = "2" -> 2 [] ch = "3" -> 3
      [] ch = "4" -> 4 [] ch = "5" -> 5 [] ch = "6" -> 6 [] ch = "7" -> 7
      [] ch = "8" -> 8 [] ch = "9" -> 9

\* int(msg) succeeds (unsigned decimal payloads)
IsInt(msg) ==
    Len(msg) > 0 /\ \A i \in 1..Len(msg) : msg[i] \in Digits

\* int(msg)
RECURSIVE IntOf(_)
IntOf(msg) ==
    IF msg = <<>> THEN 0
    ELSE 10 * IntOf(SubSeq(msg, 1, Len(msg) - 1)) + DigitVal(msg[Len(msg)])

\* _wait_off tasks that exist: created and not finished
AliveTasks == {t \in Tasks : tpc[t] \in {"created", "sleeping", "cleanup"}}

taskVars == <<tpc, telapsed, twake, tpend, tdur0, tend, toff>>
callVars == <<cpc, cret, ncalls>>

\* caller k, idle, calls a method of the mode
StartCall(k) ==
    /\ cpc[k] = "idle"
    /\ ncalls < MaxCalls
    /\ ncalls' = ncalls + 1

\* _changeOnTime(topic, msg, retain): int(msg) raises ValueError for a payload
\* that is no number, and then nothing is assigned
ChangeOnTime(msg) ==
    /\ on_time' = IF IsInt(msg) THEN IntOf(msg) ELSE on_time
    /\ UNCHANGED <<coro, dev_state, ntasks, taskVars, callVars, on_count>>
    /\ UNCHANGED compVars

\* on() with its first test left out
OnBody_NoShortcut(k) ==
    IF coro = None
    THEN /\ on_count' = on_count + 1
         /\ cpc' = [cpc EXCEPT ![k] = "on_await"]
         /\ cret' = [cret EXCEPT ![k] = "none"]
    ELSE /\ cret' = [cret EXCEPT ![k] = "TypeError"]
         /\ UNCHANGED <<cpc, on_count>>

\* on() up to its first await: the two tests, the call of component_on, or
\* raise TypeError("Should never happen")
OnBody(k) ==
    IF dev_state /\ coro # None
    THEN /\ cret' = [cret EXCEPT ![k] = "True"]
         /\ UNCHANGED <<cpc, on_count>>
    ELSE IF coro = None
    THEN /\ on_count' = on_count + 1
         /\ cpc' = [cpc EXCEPT ![k] = "on_await"]
         /\ cret' = [cret EXCEPT ![k] = "none"]
    ELSE /\ cret' = [cret EXCEPT ![k] = "TypeError"]
         /\ UNCHANGED <<cpc, on_count>>

\* what asyncio.cancel(coro) can do: coro.pend_throw(CancelledError()) leaves
\* the exception pending for a suspended coroutine; for a coroutine that has
\* not run yet (or has ended) it either does the same or raises TypeError
\* ("can't pend throw to just-started generator"), depending on the
\* MicroPython build
CancelOutcomes ==
    IF coro # None /\ tpc[coro] \in {"created", "done"}
    THEN {"pend", "TypeError"}
    ELSE {"pend"}

\* off() up to its first await: cancel the task, or call component_off
OffBody(k, outcome) ==
    IF coro # None
    THEN /\ IF outcome = "TypeError"
            THEN /\ cret' = [cret EXCEPT ![k] = "TypeError"]
                 /\ UNCHANGED tpend
            ELSE /\ cret' = [cret EXCEPT ![k] = "True"]
                 /\ tpend' = [tpend EXCEPT ![coro] = TRUE]
         /\ UNCHANGED cpc
    ELSE /\ cpc' = [cpc EXCEPT ![k] = "off_await"]
         /\ cret' = [cret EXCEPT ![k] = "none"]
         /\ UNCHANGED tpend

\* caller k calls on()
On(k) ==
    /\ StartCall(k)
    /\ OnBody(k)
    /\ UNCHANGED <<on_time, coro, dev_state, ntasks, taskVars>>
    /\ UNCHANGED compVars

\* caller k calls activate()
Activate(k) ==
    /\ StartCall(k)
    /\ IF dev_state
       THEN OnBody(k)
       ELSE /\ cret' = [cret EXCEPT ![k] = "True"]
            /\ UNCHANGED <<cpc, on_count>>
    /\ UNCHANGED <<on_time, coro, dev_state, ntasks, taskVars>>
    /\ UNCHANGED compVars

\* caller k calls off()
Off(k, outcome) ==
    /\ StartCall(k)
    /\ outcome \in CancelOutcomes
    /\ OffBody(k, outcome)
    /\ UNCHANGED <<on_time, coro, dev_state, ntasks, tpc, telapsed, twake, tdur0,
                   tend, toff, on_count>>
    /\ UNCHANGED compVars

\* caller k calls deactivate()
Deactivate(k, outcome) ==
    /\ StartCall(k)
    /\ outcome \in CancelOutcomes
    /\ OffBody(k, outcome)
    /\ UNCHANGED <<on_time, coro, dev_state, ntasks, tpc, telapsed, twake, tdur0,
                   tend, toff, on_count>>
    /\ UNCHANGED compVars

\* the device after the component_on capability has returned ok
DeviceAfterOn(ok) == IF ok THEN TRUE ELSE dev_state

\* the test of on() with any result of component_on taken for a success
IsTrue_Always(ok) == TRUE

\* on(): if await self._component_on() is True
IsTrue(ok) == ok = TRUE

\* on() resumes: await component_on() returned ok; on success the _wait_off
\* coroutine is created, stored in self._coro and scheduled
OnResume(k, ok) ==
    /\ cpc[k] = "on_await"
    /\ cpc' = [cpc EXCEPT ![k] = "idle"]
    /\ dev_state' = DeviceAfterOn(ok)
    /\ IF IsTrue(ok)
       THEN /\ ntasks' = ntasks + 1
            /\ coro' = ntasks + 1
            /\ tpc' = [tpc EXCEPT ![ntasks + 1] = "created"]
            /\ cret' = [cret EXCEPT ![k] = "True"]
       ELSE /\ cret' = [cret EXCEPT ![k] = "False"]
            /\ UNCHANGED <<ntasks, coro, tpc>>
    /\ UNCHANGED <<on_time, telapsed, twake, tpend, tdur0, tend, toff, ncalls,
                   on_count>>
    /\ UNCHANGED compVars

\* off() resumes: await component_off() returned; return True
OffResume(k) ==
    /\ cpc[k] = "off_await"
    /\ cpc' = [cpc EXCEPT ![k] = "idle"]
    /\ cret' = [cret EXCEPT ![k] = "True"]
    /\ dev_state' = FALSE
    /\ UNCHANGED <<on_time, coro, ntasks, taskVars, ncalls, on_count>>
    /\ UNCHANGED compVars

\* self._on_time when task t began to wait
DurationAtStart(t) == IF tpc[t] = "created" THEN on_time ELSE tdur0[t]

\* _wait_off: the finally block up to await component_off(); st is not read
\* again
EnterFinally(t, how) ==
    /\ tpc' = [tpc EXCEPT ![t] = "cleanup"]
    /\ coro' = None
    /\ toff' = [toff EXCEPT ![t] = @ + 1]
    /\ tend' = [tend EXCEPT ![t] = how]
    /\ twake' = [twake EXCEPT ![t] = FALSE]
    /\ telapsed' = [telapsed EXCEPT ![t] = 0]
    /\ tdur0' = [tdur0 EXCEPT ![t] = 0]

\* _wait_off goes (back) to await asyncio.sleep(0.2)
Sleep(t) ==
    /\ tpc' = [tpc EXCEPT ![t] = "sleeping"]
    /\ twake' = [twake EXCEPT ![t] = FALSE]
    /\ tdur0' = [tdur0 EXCEPT ![t] = DurationAtStart(t)]
    /\ UNCHANGED <<coro, toff, tend, telapsed>>

\* how a wait that elapses is recorded
ElapsedHow(t) ==
    IF DurationAtStart(t) = on_time THEN "elapsed" ELSE "elapsed_changed"

\* the loop test with the duration fixed when the wait began
LoopCheck_FixedDuration(t, elapsed) ==
    IF elapsed < DurationAtStart(t) * MsPerSecond
    THEN Sleep(t)
    ELSE EnterFinally(t, ElapsedHow(t))

\* _wait_off: while time.ticks_diff(time.ticks_ms(), st) < self._on_time * 1000:
\* await asyncio.sleep(0.2); when the test fails the finally block is entered
LoopCheck(t, elapsed) ==
    IF elapsed < on_time * MsPerSecond
    THEN Sleep(t)
    ELSE EnterFinally(t, ElapsedHow(t))

\* the event loop runs task t for the first time.  A CancelledError pending
\* for a coroutine that has not started is raised at its first line, outside
\* the try statement: the coroutine ends and no part of its body runs.
\* Otherwise: st = time.ticks_ms() and the first loop test.
WaitStart(t) ==
    /\ tpc[t] = "created"
    /\ IF tpend[t]
       THEN /\ tpc' = [tpc EXCEPT ![t] = "done"]
            /\ tpend' = [tpend EXCEPT ![t] = FALSE]
            /\ UNCHANGED <<telapsed, tdur0, twake, tend, coro, toff>>
       ELSE /\ LoopCheck(t, 0)
            /\ UNCHANGED tpend
    /\ UNCHANGED <<on_time, dev_state, ntasks, callVars, on_count>>
    /\ UNCHANGED compVars

\* asyncio.sleep(0.2) is over and task t runs the loop test again
WaitPoll(t) ==
    /\ tpc[t] = "sleeping"
    /\ ~tpend[t]
    /\ twake[t]
    /\ LoopCheck(t, telapsed[t])
    /\ UNCHANGED <<on_time, dev_state, ntasks, tpend, callVars, on_count>>
    /\ UNCHANGED compVars

\* the pending CancelledError is raised in task t at asyncio.sleep: except
\* asyncio.CancelledError, then the finally block
WaitCancelled(t) ==
    /\ tpc[t] = "sleeping"
    /\ tpend[t]
    /\ tpend' = [tpend EXCEPT ![t] = FALSE]
    /\ EnterFinally(t, "cancelled")
    /\ UNCHANGED <<on_time, dev_state, ntasks, callVars, on_count>>
    /\ UNCHANGED compVars

\* await component_off() in the finally block of task t returns (or, with a
\* CancelledError pending, raises it); the task ends and its locals are gone
WaitCleanupDone(t) ==
    /\ tpc[t] = "cleanup"
    /\ tpc' = [tpc EXCEPT ![t] = "done"]
    /\ dev_state' = IF tpend[t] THEN dev_state ELSE FALSE
    /\ tpend' = [tpend EXCEPT ![t] = FALSE]
    /\ tend' = [tend EXCEPT ![t] = "none"]
    /\ toff' = [toff EXCEPT ![t] = 0]
    /\ UNCHANGED <<on_time, coro, ntasks, twake, telapsed, tdur0, callVars, on_count>>
    /\ UNCHANGED compVars

\* the clock is followed in steps of one second: the clock readings of the
\* waiting tasks grow (up to MaxElapsed), and a step is long enough for the
\* asyncio.sleep(0.2) in progress to be over
AdvanceTime ==
    /\ telapsed' = [t \in Tasks |->
                      IF tpc[t] = "sleeping" /\ telapsed[t] < MaxElapsed
                      THEN telapsed[t] + MsPerSecond ELSE telapsed[t]]
    /\ twake' = [t \in Tasks |->
                   twake[t] \/ (tpc[t] = "sleeping" /\ MsPerSecond >= SleepMs)]
    /\ UNCHANGED <<on_time, coro, dev_state, ntasks, tpc, tpend, tdur0, tend, toff,
                   callVars, on_count>>
    /\ UNCHANGED compVars

ModeNext ==
    \/ \E msg \in Msgs : ChangeOnTime(msg)
    \/ \E k \in Callers : On(k)
    \/ \E k \in Callers : Activate(k)
    \/ \E k \in Callers, outcome \in {"pend", "TypeError"} : Off(k, outcome)
    \/ \E k \in Callers, outcome \in {"pend", "TypeError"} : Deactivate(k, outcome)
    \/ \E k \in Callers, ok \in BOOLEAN : OnResume(k, ok)
    \/ \E k \in Callers : OffResume(k)
    \/ \E t \in Tasks : WaitStart(t)
    \/ \E t \in Tasks : WaitPoll(t)
    \/ \E t \in Tasks : WaitCancelled(t)
    \/ \E t \in Tasks : WaitCleanupDone(t)
    \/ AdvanceTime

\* the mode is followed on a node whose configuration enables discovery
ModeInitial == Init /\ mqtt_discovery_enabled = TRUE

ModeSpec == ModeInitial /\ [][ModeNext]_vars

\* the step of wait task t that is possible at its position
TaskStep(t) ==
    \/ WaitStart(t)
    \/ WaitPoll(t)
    \/ WaitCancelled(t)
    \/ WaitCleanupDone(t)

\* the capability awaited by caller k returns
CallerResume(k) ==
    \/ \E ok \in BOOLEAN : OnResume(k, ok)
    \/ OffResume(k)

\* The event loop runs every ready task, time passes, and the component_on
\* and component_off capabilities return.  Nothing is assumed about the
\* callers of the mode or about messages on the on_time topic.
ModeFairSpec ==
    /\ ModeSpec
    /\ \A t \in Tasks : WF_vars(TaskStep(t))
    /\ \A k \in Callers : WF_vars(CallerResume(k))
    /\ WF_vars(AdvanceTime)

\* the step of worker task w that is possible at its position, the blocked
\* acquire of the lock apart
WorkerStep(w) ==
    \/ WorkerStart(w)
    \/ LogDone(w)
    \/ SubscribeDone(w)
    \/ \E outcome \in {"return", "raise"} : DiscoveryDone(w, outcome)

\* The event loop runs every ready task, and broker calls return: a step of
\* a worker task that stays possible is eventually taken.  A waiter that
\* finds the lock free for good eventually takes it.
FairSpec ==
    /\ Spec
    /\ \A w \in Comp : WF_vars(WorkerStep(w)) /\ WF_vars(LockAcquire(w))

\* await self._discovery() of worker task w ends
DiscoveryEnds(w) ==
    \E outcome \in {"return", "raise"} : DiscoveryDone(w, outcome)

\* Only this much is assumed: an announcement that has begun ends (by
\* returning or by raising), and a waiter that finds the lock free for good
\* takes it.
AnnounceFairSpec ==
    /\ Spec
    /\ \A w \in Comp : WF_vars(DiscoveryEnds(w)) /\ WF_vars(LockAcquire(w))

\* the steps of worker task w that come before its announcement
LocalStep(w) ==
    \/ WorkerStart(w)
    \/ LogDone(w)
    \/ SubscribeDone(w)

\* The node when the broker stops answering by the time the announcements
\* are published.  _publishDiscovery calls
\* _mqtt.publish(topic, msg, qos=1, retain=True) with no timeout, and a
\* publish that was given no timeout ends only when the broker has taken the
\* message: nothing makes _discovery end, so no fairness is assumed for
\* DiscoveryDone.
BrokerDownSpec ==
    /\ Spec
    /\ \A w \in Comp : WF_vars(LocalStep(w)) /\ WF_vars(LockAcquire(w))

\* ================================================== claims: Component

RegistrySet == {registry[i] : i \in 1..Len(registry)}

\* C1: components are network-initialized one at a time and in construction
\* order: no two components are inside _init_network at once, and
\* _init_network of a component begins only after _init_network of every
\* component constructed before it has returned.
C1_SerialInitInOrder ==
    /\ Cardinality(Inside) <= 1
    /\ \A i, j \in Comp : (i < j /\ init_count[j] > 0) => init_done[i] > 0

\* C2: at most one __initNetworkProcess task exists at any time.
C2_SingleInitWorker ==
    Cardinality(LiveWorkers) <= 1

\* C3: _init_network is invoked on every constructed component exactly once:
\* never more than once, and eventually once, whenever it was constructed.
C3_InitExactlyOnce ==
    /\ \A c \in Comp : [](init_count[c] <= 1)
    /\ \A c \in Comp : (c <= objs) ~> (init_count[c] = 1)

\* C3 witness: every component has been initialized once, one of them
\* constructed before any worker ran and one while a worker was suspended
\* inside another component's _init_network.
C3_Witness ==
    /\ \A c \in Comp : init_count[c] = 1 /\ init_done[c] = 1
    /\ \E c \in Comp : ctx[c] = "before"
    /\ \E c \in Comp : ctx[c] = "during"

\* C4: at most one component runs _discovery at a time, and it is the holder
\* of the lock; a component waiting for the lock while it is held stays
\* waiting.
C4_DiscoveryMutex ==
    [][/\ Cardinality({w \in Comp : wpc'[w] = "disc"}) <= 1
       /\ \A w \in Comp : wpc'[w] = "disc" => discovery_lock' = wcur'[w]
       /\ \A w \in Comp : (wpc[w] = "lockwait" /\ discovery_lock # None)
                               => wpc'[w] = "lockwait"]_vars

\* C4 witness: one component is announcing while the _init_network calls of
\* all the others wait for the lock.
C4_Witness ==
    \E a \in Comp :
        /\ wpc[a] = "disc"
        /\ \A b \in Comp \ {a} : wpc[b] = "lockwait"

\* C7: a component whose construction failed is not in the registry, is not
\* in the init queue and has no worker task.
C7_FailedConstructionLeavesNoTrace ==
    \A c \in Comp :
        failed[c] =>
            /\ c \notin RegistrySet
            /\ ~(inst_set[c] /\ inst_val[c] = c)
            /\ \A d \in Comp : init_next[d] # c
            /\ wpc[c] = "none"

\* ================================================== claims: safety_off

\* ticks_diff(ticks_ms(), st) at the loop test that task t runs in this step
ElapsedAtTest(t) == IF tpc[t] = "created" THEN 0 ELSE telapsed[t]

\* task t leaves its wait in this step because the loop test failed
Elapses(t) ==
    /\ tpc[t] \in {"created", "sleeping"}
    /\ tpc'[t] = "cleanup"
    /\ tend'[t] \in {"elapsed", "elapsed_changed"}

\* C5 as stated: a wait that ends by elapsing ends only when the duration
\* that was configured when it began has elapsed since its start.
C5_WaitKeepsInitialDuration ==
    [][\A t \in Tasks :
          Elapses(t) => ElapsedAtTest(t) >= DurationAtStart(t) * MsPerSecond]_vars

\* C5 amended: a wait that ends by elapsing ends only at a loop test at which
\* the time since its start is at least the duration configured at that
\* moment, whatever the duration was when the wait began.
C5_WaitFollowsCurrentDuration ==
    [][\A t \in Tasks :
          Elapses(t) => ElapsedAtTest(t) >= on_time * MsPerSecond]_vars

\* C5 witness: a wait has elapsed at a loop test at which the duration was
\* no longer the one it began with: _changeOnTime changed it meanwhile.
C5_Witness ==
    \E t \in Tasks : tpc[t] = "cleanup" /\ tend[t] = "elapsed_changed"

\* C6: at most one _wait_off task is alive at any time.
C6_SingleWaitTask ==
    Cardinality(AliveTasks) <= 1

\* C8: on() called while self._coro is not None returns True and never
\* raises.
C8_OnWhileRunningSucceeds ==
    [][\A k \in Callers : (On(k) /\ coro # None) => cret'[k] = "True"]_vars

\* C9: on() called while a wait is running and the device reports on returns
\* True at once: component_on is not invoked again, no task is created and
\* nothing of the mode changes.
C9_SecondOnIsNoOp ==
    [][\A k \in Callers :
          (On(k) /\ coro # None /\ dev_state) =>
              /\ cret'[k] = "True"
              /\ cpc'[k] = "idle"
              /\ on_count' = on_count
              /\ UNCHANGED <<on_time, coro, dev_state, ntasks, taskVars>>]_vars

\* C9 witness: two calls, one after the other, have both run on() (the only
\* method that invokes component_on and that returns with the task left
\* running) and returned True, with component_on invoked once and one wait
\* task running.
C9_Witness ==
    /\ ncalls = 2
    /\ on_count = 1 /\ ntasks = 1
    /\ \A k \in Callers : cpc[k] = "idle" /\ cret[k] \in {"True", "none"}
    /\ coro = 1 /\ tpc[1] = "sleeping" /\ ~tpend[1] /\ dev_state

\* C10: a _wait_off task that ends has invoked component_off exactly once.
C10_CleanupExactlyOnce ==
    [][\A t \in Tasks : (tpc[t] # "done" /\ tpc'[t] = "done") => toff[t] = 1]_vars

\* C11: an off() request results in exactly one invocation of component_off:
\* with no wait task (self._coro is None) off() invokes it directly; with a
\* wait task off() does not invoke it, cancels the task and returns True,
\* and the cancelled task ends having invoked it exactly once.
C11_OffInvokesOnce ==
    [][/\ \A k \in Callers :
            (\E outcome \in {"pend", "TypeError"} : Off(k, outcome)) =>
                IF coro = None
                THEN cpc'[k] = "off_await"
                ELSE cpc'[k] = "idle" /\ cret'[k] = "True" /\ tpend'[coro]
       /\ \A t \in Tasks :
            (tpend[t] /\ tpc[t] # "done" /\ tpc'[t] = "done") => toff[t] = 1]_vars

\* C12: an on() call made after off() has cancelled a wait in progress, once
\* it returns True, leaves the device on with a wait task that is alive, is
\* the one self._coro refers to and is not the cancelled one.
C12_OnAfterOffStartsFreshWait ==
    [][\A k \in Callers :
          (On(k) /\ (\E t \in Tasks : tpc[t] = "sleeping" /\ tpend[t])
                 /\ cret'[k] = "True") =>
              /\ dev_state'
              /\ coro' # None
              /\ tpc'[coro'] \in {"created", "sleeping"}
              /\ ~tpend'[coro']]_vars

\* C13: when off() called while a wait task is waiting returns True, that
\* task has invoked component_off exactly once.
C13_OffInvokesWithinCall ==
    [][\A k \in Callers :
          ((\E outcome \in {"pend", "TypeError"} : Off(k, outcome))
               /\ coro # None /\ tpc[coro] = "sleeping" /\ cret'[k] = "True") =>
              toff'[coro] = 1]_vars

\* C14: when component_on does not report success, on() returns False, no
\* _wait_off task is created and self._coro is left as it is.
C14_FailedOnStartsNothing ==
    [][\A k \in Callers :
          OnResume(k, FALSE) =>
              /\ cret'[k] = "False"
              /\ cpc'[k] = "idle"
              /\ UNCHANGED <<coro, ntasks, taskVars>>]_vars

\* C14 witness: the only call made was an on() whose component_on failed: it
\* returned False and the mode is Off, with no task ever created.
C14_Witness ==
    /\ ncalls = 1 /\ on_count = 1
    /\ \E k \in Callers : cpc[k] = "idle" /\ cret[k] = "False"
    /\ coro = None /\ ntasks = 0

\* C15: while announcements are not delivered, _init_network still
\* terminates: a component that has begun its announcement leaves it, the
\* discovery lock is released again, and a component waiting for the lock
\* gets it.
C15_InitSurvivesLostAnnouncement ==
    /\ \A w \in Comp : (wpc[w] = "disc") ~> (wpc[w] # "disc")
    /\ (discovery_lock # None) ~> (discovery_lock = None)
    /\ \A w \in Comp : (wpc[w] = "lockwait") ~> (wpc[w] # "lockwait")

\* C16: activate() follows the device: when the device reports on it does
\* what on() does (returns True at once when a wait exists, else invokes
\* component_on), and when the device reports off it does what off() does
\* (cancels the wait task when there is one, else invokes component_off).
C16_ActivateFollowsDevice ==
    [][\A k \in Callers :
          Activate(k) =>
              IF dev_state
              THEN IF coro # None
                   THEN cret'[k] = "True" /\ cpc'[k] = "idle"
                   ELSE cpc'[k] = "on_await" /\ on_count' = on_count + 1
              ELSE IF coro # None
                   THEN tpend'[coro] \/ cret'[k] = "TypeError"
                   ELSE cpc'[k] = "off_await"]_vars

\* C17: a _wait_off task that enters its cleanup has cleared self._coro
\* when it is suspended in component_off, and asyncio.cancel (off() or
\* deactivate() with self._coro not None) is only ever applied to a task
\* that has neither entered its cleanup nor finished.
C17_CancelOnlyWaitingTask ==
    [][/\ \A t \in Tasks :
            (tpc[t] # "cleanup" /\ tpc'[t] = "cleanup") => coro' = None
       /\ \A k \in Callers :
            ((\E outcome \in {"pend", "TypeError"} :
                  Off(k, outcome) \/ Deactivate(k, outcome)) /\ coro # None)
                => tpc[coro] \in {"created", "sleeping"}]_vars

\* C18: the discovery lock is held only by a component that is running
\* _discovery (never during the subscriptions), it is free again as soon as
\* _discovery has ended, by returning or by raising, and a component
\* waiting for the lock eventually runs its own _discovery.
C18_LockOnlyAroundDiscovery ==
    /\ [](\A c \in Comp :
            discovery_lock = c => \E w \in Comp : wpc[w] = "disc" /\ wcur[w] = c)
    /\ [][\A w \in Comp :
            (wpc[w] = "disc" /\ wpc'[w] # "disc") => discovery_lock' = None]_vars
    /\ \A w \in Comp : (wpc[w] = "lockwait") ~> (wpc[w] = "disc")

\* C18 witness: the announcement of one component has raised, and another
\* component now holds the lock and runs its own _discovery.
C18_Witness ==
    \E a, b \in Comp :
        /\ wpc[a] = "raised"
        /\ wpc[b] = "disc"
        /\ discovery_lock = wcur[b]

\* C19: whenever no call of the mode and no cleanup of a wait task is in
\* progress, the mode is either Off (self._coro is None, no _wait_off task
\* alive, device off) or On-Timed (self._coro refers to the only alive
\* _wait_off task, device on).
C19_OffOrOnTimed ==
    ((\A k \in Callers : cpc[k] = "idle") /\ (\A t \in Tasks : tpc[t] # "cleanup")) =>
        \/ coro = None /\ AliveTasks = {} /\ ~dev_state
        \/ coro # None /\ AliveTasks = {coro} /\ dev_state

\* the configured duration, in seconds, is one that the clock readings of the
\* model reach
WithinHorizon == on_time <= MaxSeconds

\* component_off has been invoked and has not returned yet: by the cleanup of
\* a wait task or by off()
OffInvoked ==
    \/ \E t \in Tasks : tpc[t] = "cleanup"
    \/ \E k \in Callers : cpc[k] = "off_await"

\* C20: safety auto-off: whenever the device is on (on() turned it on) and
\* the configured duration is finite, component_off is eventually invoked,
\* whatever the callers do or do not do afterwards (unless the duration is
\* raised beyond the horizon meanwhile).
C20_AutoOffEventually ==
    (dev_state /\ WithinHorizon) ~> (OffInvoked \/ ~WithinHorizon)

====
